---------------------------- MODULE Spec2Model ----------------------------
(***************************************************************************)
(* Stationing pipeline of ArcPro-Beta-Automation.                          *)
(*                                                                         *)
(* Stationizer_v1.py and Stationizer_v2.py share the stages that project   *)
(* the asset points (Handholes) onto the route, filter them by the 50 ft   *)
(* corridor and build one route segment per projected point.  They differ  *)
(* in the propagation stage: v1 uses two spatial joins and an ordered      *)
(* transfer, v2 numbers the segments and runs a selection cascade.         *)
(*                                                                         *)
(* Conventions of the model                                                *)
(*  - A text value is the sequence of its character codes, so that the     *)
(*    text ordering of "ORDER BY" can be computed.  None / <Null> is the   *)
(*    empty sequence (format_station never returns an empty text).         *)
(*  - A float distance handed to format_station is a fixed-point number    *)
(*    in thousandths of a unit.                                            *)
(*  - Geometries live on an integer grid and are axis-aligned boxes        *)
(*    [x1, y1, x2, y2]: a point is a box of extent zero, a route polyline  *)
(*    is a horizontal box, a connection line joins an asset point to its   *)
(*    projection and the flat-capped buffer of a straight polyline is a    *)
(*    rectangle.  Between such boxes the geometric predicates used by the  *)
(*    scripts are exact.                                                   *)
(*  - A layer's selection is NoSelection (tools and cursors see every      *)
(*    feature) or a set of OBJECTIDs (they see only these, possibly none). *)
(***************************************************************************)
EXTENDS Integers, Sequences, FiniteSets, TLC

-----------------------------------------------------------------------------
(* Text                                                                    *)

Null == << >>

Digit(c) == 48 + c

PlusSign == << 43 >>

IsDigitCode(ch) == ch >= 48 /\ ch <= 57

RECURSIVE DecDigits(_)
\* str(n) for a non-negative integer n
DecDigits(n) ==
    IF n < 10 THEN << Digit(n) >>
    ELSE DecDigits(n \div 10) \o << Digit(n % 10) >>

\* format spec ":02d": at least two characters, zero filled, never truncated
ZeroPad2(n) ==
    LET s == DecDigits(n)
    IN  IF Len(s) < 2 THEN << Digit(0) >> \o s ELSE s

\* int(distance_ft): the mutant of PyRound that drops the fraction
PyTruncate(milli) == milli \div 1000

\* int(round(x)) of Python 3: nearest integer, a tie goes to the even one
PyRound(milli) ==
    LET q == milli \div 1000
        r == milli % 1000
    IN  IF r < 500 THEN q
        ELSE IF r > 500 THEN q + 1
        ELSE IF q % 2 = 0 THEN q ELSE q + 1

format_station(distance_ft) ==
    LET dist_rounded == PyRound(distance_ft)
        hundreds     == dist_rounded \div 100
        remainder    == dist_rounded % 100
    IN  ZeroPad2(hundreds) \o PlusSign \o ZeroPad2(remainder)

\* A text written digit by digit, for the examples: Label(<<0,1>>, <<2,5>>) is "01+25"
Label(hs, rs) ==
    [i \in 1..Len(hs) |-> Digit(hs[i])] \o PlusSign \o [i \in 1..Len(rs) |-> Digit(rs[i])]

RECURSIVE DecValue(_)
\* the number a text of decimal digits denotes
DecValue(s) ==
    IF Len(s) = 0 THEN 0
    ELSE 10 * DecValue(SubSeq(s, 1, Len(s) - 1)) + (s[Len(s)] - 48)

-----------------------------------------------------------------------------
(* Geometry                                                                *)

Max(a, b) == IF a >= b THEN a ELSE b

Box(x1, y1, x2, y2) == [x1 |-> x1, y1 |-> y1, x2 |-> x2, y2 |-> y2]

PointGeometry(x, y) == Box(x, y, x, y)

\* the free interval between [a1, a2] and [b1, b2] on one axis
Gap(a1, a2, b1, b2) == Max(0, Max(b1 - a2, a1 - b2))

\* square of geom.distanceTo(other)
DistSq(g, h) ==
    LET dx == Gap(g.x1, g.x2, h.x1, h.x2)
        dy == Gap(g.y1, g.y2, h.y1, h.y2)
    IN  dx * dx + dy * dy

\* the distance itself; every distance the Near tool stores is whole on the grid
Sqrt(n) == CHOOSE r \in 0..n : r * r = n

\* overlap_type WITHIN_A_DISTANCE with a search distance of d units (inclusive)
WITHIN_A_DISTANCE(g, h, d) == DistSq(g, h) <= d * d

\* overlap_type INTERSECT
INTERSECT(g, h) == DistSq(g, h) = 0

\* overlap_type WITHIN: inside the polygon, the boundary allowed (mutant of the next)
WITHIN(g, polygon) ==
    /\ polygon.x1 <= g.x1 /\ g.x2 <= polygon.x2
    /\ polygon.y1 <= g.y1 /\ g.y2 <= polygon.y2

\* overlap_type COMPLETELY_WITHIN: inside the polygon and not touching its boundary
COMPLETELY_WITHIN(g, polygon) ==
    /\ polygon.x1 < g.x1 /\ g.x2 < polygon.x2
    /\ polygon.y1 < g.y1 /\ g.y2 < polygon.y2

\* shapely_line.buffer(d, cap_style=2) of a straight line: flat caps end at its ends
FlatCapBuffer(line, d) == Box(line.x1, line.y1 - d, line.x2, line.y2 + d)

\* the smallest box holding two geometries: the line joining two points of one
\* row or one column of the grid
Hull(g, h) ==
    Box(IF g.x1 <= h.x1 THEN g.x1 ELSE h.x1, IF g.y1 <= h.y1 THEN g.y1 ELSE h.y1,
        Max(g.x2, h.x2), Max(g.y2, h.y2))

Shape(f) == PointGeometry(f.x, f.y)

-----------------------------------------------------------------------------
(* Layers and selections                                                   *)

NoSelection == [on |-> FALSE, ids |-> {}]

Selected(ids) == [on |-> TRUE, ids |-> ids]

\* the rows a geoprocessing tool or a cursor sees through a layer
Visible(sel, fc) ==
    LET Seen(f) == f.OID \in sel.ids
    IN  IF sel.on THEN SelectSeq(fc, Seen) ELSE fc

\* selection_type ADD_TO_SELECTION: with no selection present it acts as NEW_SELECTION
ADD_TO_SELECTION(sel, matches) == Selected(sel.ids \cup matches)

\* selection_type NEW_SELECTION
NEW_SELECTION(sel, matches) == Selected(matches)

OIDs(fc) == {fc[i].OID : i \in DOMAIN fc}

Range(s) == {s[i] : i \in DOMAIN s}

RECURSIVE Ascending(_)
\* the members of a finite set of integers in ascending order
Ascending(S) ==
    IF S = {} THEN << >>
    ELSE LET m == CHOOSE x \in S : \A y \in S : x <= y
         IN  << m >> \o Ascending(S \ {m})

-----------------------------------------------------------------------------
(* Program constants and the bounds of the model                           *)

\* "NEAR_DIST <= 50"
NearThreshold == 50

\* shapely_line.buffer(50, cap_style=2)
BufferDistance == 50

\* "1 foot", the search distance of both selections of the cascade
CascadeDistance == 1

\* snap_distance="1 Feet"
SnapDistance == 1

\* handholes_join_radius="10 Feet"
HandholesJoinRadius == 10

\* number of asset points in the Handholes feature class
NumPoints == 3

\* length of the route polyline CENTERLINE_TEST
RouteLength == 500

\* largest whole distance handed to format_station on its own
MaxDistance == 10000

\* Where an asset point may lie, (x, y); the route runs from (0, 0) to
\* (RouteLength, 0).  Two ordinary points whose projections are far apart, a
\* neighbour one unit from the first, a point exactly on the buffer edge
\* (NEAR_DIST = 50), one beyond the threshold and one on the extension of the
\* route before its start.
Positions ==
    { <<92, 30>>, <<93, 30>>, <<125, 30>>,
      <<125, 50>>, <<125, 70>>, <<-20, 0>> }

\* fractions, in thousandths, of the distances handed to format_station on its own
Fractions == {0, 1, 499, 500, 501, 521, 836, 999}

\* the STATIONING an asset point may carry from earlier work: "09+99"
OldStation == Label(<<0, 9>>, <<9, 9>>)

TempFeatureClasses ==
    {"Append_Points", "Connection_Lines", "Line_Points", "RouteSegments", "EndPoints"}

-----------------------------------------------------------------------------
(* State                                                                   *)

VARIABLES
    pc,                 \* the statement of main() (or of format_station's caller) reached
    gen,                \* 1: Stationizer_v1.py, 2: Stationizer_v2.py
    routes,             \* CENTERLINE_TEST: the route polylines, in OBJECTID order
    Handholes,          \* the asset points, in OBJECTID order
    hhFields,           \* the optional fields the Handholes feature class has
    Append_Points,      \* filtered copy of the asset points (later with the projections)
    Line_Points,        \* the projected points
    Connection_Lines,   \* one line per ConnectionNum
    clFields,           \* the STATIONING fields Connection_Lines has
    RouteSegments,      \* one segment per projected point
    EndPoints,          \* last vertex of each segment (v2)
    conn_lines_join,    \* output of the first spatial join (v1)
    handholes_conn_lines_join,  \* output of the second spatial join (v1)
    store,              \* names of the derived feature classes that exist
    selHandholes,       \* selection of the map layer Handholes
    selConnection_Lines,\* selection of the map layer Connection_Lines
    selEndPoints,       \* selection of the map layer EndPoints
    stationingDict,     \* v2: the dict, as its items in insertion order
    cursor,             \* rows the running loop still has to visit
    runs,               \* how many times the propagation stage has been started
    prior,              \* history: STATIONING of each asset point before the run
    preFilter,          \* history: the three working sets as the corridor filter found them
    writeLog,           \* history: the loop iterations so far, with what each selected
    firstRun,           \* history: every STATIONING as the first propagation left it
    distance_ft,        \* argument of a direct call of format_station
    station,            \* its result
    segment_messages    \* what generate_segments has told through AddMessage

vars ==
    << pc, gen, routes, Handholes, hhFields, Append_Points, Line_Points,
       Connection_Lines, clFields, RouteSegments, EndPoints, conn_lines_join,
       handholes_conn_lines_join, store, selHandholes, selConnection_Lines,
       selEndPoints, stationingDict, cursor, runs, prior, preFilter, writeLog,
       firstRun, distance_ft, station, segment_messages >>

pipelineVars_but_cursor ==
    << gen, routes, Handholes, hhFields, Append_Points, Line_Points,
       Connection_Lines, clFields, RouteSegments, EndPoints, conn_lines_join,
       handholes_conn_lines_join, store, selHandholes, selConnection_Lines,
       selEndPoints, stationingDict, runs, prior, preFilter, writeLog,
       firstRun, segment_messages >>

pipelineVars == << pipelineVars_but_cursor, cursor >>

\* the asset points as the geodatabase holds them before a run
NewHandhole(oid, pos, hasId, label) ==
    [ OID |-> oid, x |-> pos[1], y |-> pos[2],
      ConnectionNum |-> IF hasId THEN oid ELSE 0,
      NEAR_DIST |-> -1, NEAR_X |-> 0, NEAR_Y |-> 0,
      STATIONING |-> label ]

\* STATIONING of every asset point, by OBJECTID
Stationings(fc) == [i \in DOMAIN fc |-> fc[i].STATIONING]

\* What the optional fields of Handholes hold before a run: nothing, or
\* ConnectionNum (= OBJECTID, as an earlier run leaves it), or STATIONING (empty,
\* or with the first asset point labelled), or both.  `added`: the last asset
\* point was created after the run that made ConnectionNum, so the field is
\* there and the point holds no value in it (0).
InitialFields ==
    { [ConnectionNum |-> c, STATIONING |-> s, labelled |-> l, added |-> a] :
        c \in BOOLEAN, s \in BOOLEAN, l \in BOOLEAN, a \in BOOLEAN }

\* the state before a run over the route feature class `line_fc`, whose asset
\* points lie at places of `positions`
InitOn(line_fc, positions) ==
    /\ pc = "start"
    /\ gen \in {1, 2}
    /\ routes = line_fc
    /\ \E pos \in [1..NumPoints -> positions], f \in InitialFields :
        /\ f.labelled => f.STATIONING
        /\ f.added => (gen = 2 /\ f.ConnectionNum /\ f.STATIONING /\ ~f.labelled)
        /\ hhFields = {n \in {"ConnectionNum", "STATIONING"} : f[n]}
        /\ Handholes =
            [i \in 1..NumPoints |->
                NewHandhole(i, pos[i], f.ConnectionNum /\ ~(f.added /\ i = NumPoints),
                            IF f.labelled /\ i = 1 THEN OldStation ELSE Null)]
    /\ prior = Stationings(Handholes)
    \* the map layer Handholes may carry a selection of the user's; only
    \* selectionpaluza adds to it, the transfer of v1 starts with NEW_SELECTION
    /\ selHandholes \in IF gen = 2 /\ (\A i \in DOMAIN Handholes :
                                          "ConnectionNum" \in hhFields
                                             => Handholes[i].ConnectionNum # 0)
                         THEN {NoSelection, Selected({1})}
                         ELSE {NoSelection}
    /\ selConnection_Lines = NoSelection
    /\ selEndPoints = NoSelection
    /\ Append_Points = << >>
    /\ Line_Points = << >>
    /\ Connection_Lines = << >>
    /\ clFields = {}
    /\ RouteSegments = << >>
    /\ EndPoints = << >>
    /\ conn_lines_join = << >>
    /\ handholes_conn_lines_join = << >>
    /\ store = {}
    /\ stationingDict = << >>
    /\ cursor = << >>
    /\ runs = 0
    /\ preFilter = << >>
    /\ writeLog = << >>
    /\ firstRun = << >>
    /\ segment_messages = << >>
    /\ distance_ft = 0
    /\ station = Null

\* the state before a run over the one straight route
InitAt(positions) == InitOn(<< Box(0, 0, RouteLength, 0) >>, positions)

Init == InitAt(Positions)

-----------------------------------------------------------------------------
(* Stages shared by both scripts                                           *)

Clamp(v, lo, hi) == IF v < lo THEN lo ELSE IF v > hi THEN hi ELSE v

\* nearest location to a point on one polyline
NearestOn(line, x, y) == [x |-> Clamp(x, line.x1, line.x2), y |-> line.y1]

\* Near_analysis(point_fc, line_fc, location="LOCATION"): distance to, and place of,
\* the nearest location on the nearest polyline
Near_analysis(x, y, lines) ==
    LET d(i) == LET n == NearestOn(lines[i], x, y)
                IN  DistSq(PointGeometry(x, y), PointGeometry(n.x, n.y))
        best == CHOOSE i \in DOMAIN lines :
                    \A j \in DOMAIN lines : d(i) < d(j) \/ (d(i) = d(j) /\ i <= j)
        at   == NearestOn(lines[best], x, y)
    IN  [NEAR_DIST |-> Sqrt(d(best)), NEAR_X |-> at.x, NEAR_Y |-> at.y]

prepare_point_data_and_run_near ==
    /\ pc = "start"
    /\ hhFields' = hhFields \cup {"ConnectionNum"}
    /\ Handholes' =
        [i \in DOMAIN Handholes |->
            LET h    == Handholes[i]
                near == Near_analysis(h.x, h.y, routes)
            IN  [h EXCEPT
                   !.ConnectionNum =
                       IF "ConnectionNum" \notin hhFields THEN h.OID ELSE @,
                   !.NEAR_DIST = near.NEAR_DIST,
                   !.NEAR_X = near.NEAR_X,
                   !.NEAR_Y = near.NEAR_Y]]
    /\ pc' = "near"
    /\ UNCHANGED << gen, routes, Append_Points, Line_Points, Connection_Lines,
                    clFields, RouteSegments, EndPoints, conn_lines_join,
                    handholes_conn_lines_join, store, selHandholes,
                    selConnection_Lines, selEndPoints, stationingDict, cursor,
                    runs, prior, preFilter, writeLog, firstRun, distance_ft, station,
                    segment_messages >>

\* where_clause "NEAR_DIST < 50" (mutant of the next)
select_points_below_50ft(point_fc) ==
    LET Near(h) == h.NEAR_DIST < NearThreshold
    IN  SelectSeq(point_fc, Near)

\* the layer made with where_clause "NEAR_DIST <= 50"
select_points_within_50ft(point_fc) ==
    LET Near(h) == h.NEAR_DIST <= NearThreshold
    IN  SelectSeq(point_fc, Near)

\* a feature class written from rows: OBJECTIDs are dealt afresh from `after` + 1
Copied(rows, after) ==
    [i \in DOMAIN rows |->
        [ OID |-> after + i, x |-> rows[i].x, y |-> rows[i].y,
          ConnectionNum |-> rows[i].ConnectionNum,
          NEAR_X |-> rows[i].NEAR_X, NEAR_Y |-> rows[i].NEAR_Y ]]

export_selected_points ==
    /\ pc = "near"
    /\ Append_Points' = Copied(select_points_within_50ft(Handholes), 0)
    /\ store' = store \cup {"Append_Points"}
    /\ pc' = "selected"
    /\ UNCHANGED << gen, routes, Handholes, hhFields, Line_Points, Connection_Lines,
                    clFields, RouteSegments, EndPoints, conn_lines_join,
                    handholes_conn_lines_join, selHandholes,
                    selConnection_Lines, selEndPoints, stationingDict, cursor,
                    runs, prior, preFilter, writeLog, firstRun, distance_ft, station,
                    segment_messages >>

\* the XY event layer: each row drawn at (NEAR_X, NEAR_Y)
create_xy_event_layer(input_fc) ==
    [i \in DOMAIN input_fc |->
        [input_fc[i] EXCEPT !.x = input_fc[i].NEAR_X, !.y = input_fc[i].NEAR_Y]]

export_xy_event_layer ==
    /\ pc = "selected"
    /\ Line_Points' = Copied(create_xy_event_layer(Append_Points), 0)
    /\ store' = store \cup {"Line_Points"}
    /\ pc' = "projected"
    /\ UNCHANGED << gen, routes, Handholes, hhFields, Append_Points, Connection_Lines,
                    clFields, RouteSegments, EndPoints, conn_lines_join,
                    handholes_conn_lines_join, selHandholes,
                    selConnection_Lines, selEndPoints, stationingDict, cursor,
                    runs, prior, preFilter, writeLog, firstRun, distance_ft, station,
                    segment_messages >>

append_connection_points ==
    /\ pc = "projected"
    /\ Append_Points' = Append_Points \o Copied(Line_Points, Len(Append_Points))
    /\ pc' = "appended"
    /\ UNCHANGED << gen, routes, Handholes, hhFields, Line_Points, Connection_Lines,
                    clFields, RouteSegments, EndPoints, conn_lines_join,
                    handholes_conn_lines_join, store, selHandholes,
                    selConnection_Lines, selEndPoints, stationingDict, cursor,
                    runs, prior, preFilter, writeLog, firstRun, distance_ft, station,
                    segment_messages >>

\* PointsToLine_management(input_fc, output_fc, "ConnectionNum"): one line per
\* value of the field, through the points that carry it
PointsToLine(input_fc) ==
    LET ids == Ascending({input_fc[i].ConnectionNum : i \in DOMAIN input_fc})
        Group(n) == {i \in DOMAIN input_fc : input_fc[i].ConnectionNum = n}
        First(n) == CHOOSE i \in Group(n) : \A j \in Group(n) : i <= j
        Final(n) == CHOOSE i \in Group(n) : \A j \in Group(n) : i >= j
    IN  [k \in DOMAIN ids |->
            [ OID |-> k, ConnectionNum |-> ids[k],
              geom |-> Hull(Shape(input_fc[First(ids[k])]),
                            Shape(input_fc[Final(ids[k])])),
              STATIONING |-> Null, STATIONING_1 |-> Null ]]

create_connection_lines ==
    /\ pc = "appended"
    /\ Connection_Lines' = PointsToLine(Append_Points)
    /\ clFields' = {}
    /\ store' = store \cup {"Connection_Lines"}
    /\ pc' = "lines"
    /\ UNCHANGED << gen, routes, Handholes, hhFields, Append_Points, Line_Points,
                    RouteSegments, EndPoints, conn_lines_join,
                    handholes_conn_lines_join, selHandholes,
                    selConnection_Lines, selEndPoints, stationingDict, cursor,
                    runs, prior, preFilter, writeLog, firstRun, distance_ft, station,
                    segment_messages >>

-----------------------------------------------------------------------------
(* Corridor filter                                                         *)

\* SHAPE@ of a row: lines and segments store their geometry, points their x and y
Geom(f) == IF "geom" \in DOMAIN f THEN f.geom ELSE Shape(f)

\* The buffer polygon: built from the first geometry the cursor over line_fc returns
create_shapely_buffer(line_fc) == FlatCapBuffer(line_fc[1], BufferDistance)

\* SelectLayerByLocation(layer, "COMPLETELY_WITHIN", buffer, NEW_SELECTION, invert)
NotCompletelyWithin(fc, buffer_fc) ==
    NEW_SELECTION(NoSelection,
        {fc[i].OID : i \in {j \in DOMAIN fc : ~COMPLETELY_WITHIN(Geom(fc[j]), buffer_fc)}})

\* DeleteFeatures_management(layer): the rows the layer shows are deleted
DeleteFeatures(fc, sel) ==
    LET gone == OIDs(Visible(sel, fc))
        Kept(f) == f.OID \notin gone
    IN  SelectSeq(fc, Kept)

\* one pass of the loop over feature_classes
DeleteOutside(fc, buffer_fc) == DeleteFeatures(fc, NotCompletelyWithin(fc, buffer_fc))

delete_features_outside_buffer ==
    /\ pc = "lines"
    /\ LET buffer_fc == create_shapely_buffer(routes)
       IN  /\ Append_Points' = DeleteOutside(Append_Points, buffer_fc)
           /\ Line_Points' = DeleteOutside(Line_Points, buffer_fc)
           /\ Connection_Lines' = DeleteOutside(Connection_Lines, buffer_fc)
    /\ preFilter' = << Append_Points, Line_Points, Connection_Lines >>
    /\ pc' = "filtered"
    /\ UNCHANGED << gen, routes, Handholes, hhFields, clFields, RouteSegments,
                    EndPoints, conn_lines_join, handholes_conn_lines_join, store,
                    selHandholes, selConnection_Lines, selEndPoints,
                    stationingDict, cursor, runs, prior, writeLog, firstRun,
                    distance_ft, station,
                    segment_messages >>

-----------------------------------------------------------------------------
(* Segments                                                                *)

\* every point measured on the first polyline read (mutant of the next)
FirstLine(point_geom, polyline_geoms) == 1

\* The polyline a snapped point is measured on: the only one, or else the first
\* one at distance zero; 0 when there is none and the point is skipped
LineOf(point_geom, polyline_geoms) ==
    LET on == {i \in DOMAIN polyline_geoms : DistSq(polyline_geoms[i], point_geom) = 0}
    IN  IF Len(polyline_geoms) = 1 THEN 1
        ELSE IF on = {} THEN 0
        ELSE CHOOSE i \in on : \A j \in on : i <= j

\* line_geom.measureOnLine(point_geom): arc length from the start vertex to the
\* location nearest to the point
measureOnLine(line_geom, point_geom) ==
    Clamp(point_geom.x1, line_geom.x1, line_geom.x2) - line_geom.x1

\* line_geom.segmentAlongLine(0, dist_along)
segmentAlongLine(line_geom, dist_along) ==
    Box(line_geom.x1, line_geom.y1, line_geom.x1 + dist_along, line_geom.y1)

\* segment.length, as the float handed to format_station (thousandths)
LengthOf(segment) == 1000 * ((segment.x2 - segment.x1) + (segment.y2 - segment.y1))

RECURSIVE InsertedSegments(_, _)
\* the rows the insert cursor has written after the loop over the snapped points
InsertedSegments(snapped_points, polyline_geoms) ==
    IF snapped_points = << >> THEN << >>
    ELSE LET before     == InsertedSegments(SubSeq(snapped_points, 1, Len(snapped_points) - 1),
                                            polyline_geoms)
             point_geom == Shape(snapped_points[Len(snapped_points)])
             which      == LineOf(point_geom, polyline_geoms)
             line_geom  == polyline_geoms[which]
             dist_along == measureOnLine(line_geom, point_geom)
             segment    == segmentAlongLine(line_geom, dist_along)
         IN  IF which = 0 THEN before
             ELSE Append(before,
                    [ OID |-> Len(before) + 1, geom |-> segment,
                      STATIONING |-> format_station(LengthOf(segment)),
                      SEGMENT_ID |-> 0 ])

\* rows.sort(key=lambda x: x[1]) placing equal lengths last-first (mutant of the next)
SortedByLengthUnstable(rows) ==
    LET Before(a, b) == a.length < b.length \/ (a.length = b.length /\ a.OID > b.OID)
        Place(i) == 1 + Cardinality({j \in DOMAIN rows : Before(rows[j], rows[i])})
    IN  [k \in DOMAIN rows |-> rows[CHOOSE i \in DOMAIN rows : Place(i) = k]]

RECURSIVE SortedByLength(_)
\* rows.sort(key=lambda x: x[1]): ascending and stable, by insertion of each row
\* behind the rows that are not longer
SortedByLength(rows) ==
    IF rows = << >> THEN << >>
    ELSE LET done == SortedByLength(SubSeq(rows, 1, Len(rows) - 1))
             row  == rows[Len(rows)]
             k    == Cardinality({i \in DOMAIN done : done[i].length <= row.length})
         IN  SubSeq(done, 1, k) \o << row >> \o SubSeq(done, k + 1, Len(done))

\* sorted_ids with segment_id advanced only when the length grows (mutant of the next)
sorted_ids_dense(rows) ==
    [k \in DOMAIN rows |->
        [ oid |-> rows[k].OID,
          segment_id |-> Cardinality({rows[j].length : j \in 1..k}) ]]

\* sorted_ids: the k-th row of the sorted list gets segment_id k
sorted_ids(rows) ==
    [k \in DOMAIN rows |-> [oid |-> rows[k].OID, segment_id |-> k]]

\* the (OID, length) rows read back from the output feature class
LengthRows(fc) == [i \in DOMAIN fc |-> [OID |-> fc[i].OID, length |-> LengthOf(fc[i].geom)]]

\* the update cursor: every row gets sorted_ids[OID]
WithSegmentIds(fc) ==
    LET ids == sorted_ids(SortedByLength(LengthRows(fc)))
        IdOf(oid) == ids[CHOOSE k \in DOMAIN ids : ids[k].oid = oid].segment_id
    IN  [i \in DOMAIN fc |-> [fc[i] EXCEPT !.SEGMENT_ID = IdOf(fc[i].OID)]]

\* The messages of generate_segments: the one that names the output feature
\* class.  A point passed over by "continue" is neither counted nor mentioned.
generate_segments_messages ==
    << [about |-> "Generated segments feature class", value |-> "RouteSegments"] >>

generate_segments ==
    /\ pc = "filtered"
    /\ LET inserted == InsertedSegments(Line_Points, routes)
       IN  RouteSegments' = IF gen = 2 THEN WithSegmentIds(inserted) ELSE inserted
    /\ store' = store \cup {"RouteSegments"}
    /\ segment_messages' = generate_segments_messages
    /\ pc' = "segments"
    /\ runs' = 1
    /\ UNCHANGED << gen, routes, Handholes, hhFields, Append_Points, Line_Points,
                    Connection_Lines, clFields, EndPoints, conn_lines_join,
                    handholes_conn_lines_join, selHandholes, selConnection_Lines,
                    selEndPoints, stationingDict, cursor, prior, preFilter,
                    writeLog, firstRun, distance_ft, station >>

-----------------------------------------------------------------------------
(* Propagation, Stationizer_v2.py: the selection cascade                   *)

\* polyline.firstPoint taken for polyline.lastPoint (mutant of the next)
createStartPoints(polyline_fc) ==
    [i \in DOMAIN polyline_fc |->
        [ OID |-> i, x |-> polyline_fc[i].geom.x1, y |-> polyline_fc[i].geom.y1,
          SEGMENT_ID |-> polyline_fc[i].SEGMENT_ID,
          STATIONING |-> polyline_fc[i].STATIONING ]]

\* One End Point per segment, at its last vertex, with its SEGMENT_ID and
\* STATIONING.  The tests "if polyline" and "if last_vertex" pass for every
\* row: each row of RouteSegments holds the polyline generate_segments made.
createEndPoints(polyline_fc) ==
    [i \in DOMAIN polyline_fc |->
        [ OID |-> i, x |-> polyline_fc[i].geom.x2, y |-> polyline_fc[i].geom.y2,
          SEGMENT_ID |-> polyline_fc[i].SEGMENT_ID,
          STATIONING |-> polyline_fc[i].STATIONING ]]

RECURSIVE DictItems(_)
\* stationingDict[row[0]] = row[1] for each row: a key stays where it was first
\* inserted and keeps the value set last
DictItems(rows) ==
    IF rows = << >> THEN << >>
    ELSE LET items == DictItems(SubSeq(rows, 1, Len(rows) - 1))
             row   == rows[Len(rows)]
             item  == [key |-> row.SEGMENT_ID, value |-> row.STATIONING]
             at    == {i \in DOMAIN items : items[i].key = item.key}
         IN  IF at = {} THEN Append(items, item)
             ELSE [i \in DOMAIN items |-> IF i \in at THEN item ELSE items[i]]

\* for id in stationingDict.keys(): the keys in insertion order
Keys(items) == [i \in DOMAIN items |-> items[i].key]

Lookup(items, key) == items[CHOOSE i \in DOMAIN items : items[i].key = key].value

\* the OBJECTIDs of the rows of fc within `distance` of a row of `selecting`
WithinDistanceOf(fc, selecting, distance) ==
    {fc[i].OID : i \in {j \in DOMAIN fc :
        \E k \in DOMAIN selecting :
            WITHIN_A_DISTANCE(Geom(fc[j]), Geom(selecting[k]), distance)}}

\* the update cursor over a layer: STATIONING of every row it shows is set
UpdateStationing(fc, sel, value) ==
    LET shown == OIDs(Visible(sel, fc))
    IN  [i \in DOMAIN fc |->
            IF fc[i].OID \in shown THEN [fc[i] EXCEPT !.STATIONING = value] ELSE fc[i]]

Changed(old, new) == {old[i].OID : i \in {j \in DOMAIN old : old[j].STATIONING # new[j].STATIONING}}

selectionpaluza_begin ==
    /\ pc = "segments"
    /\ gen = 2
    /\ stationingDict' = DictItems(RouteSegments)
    /\ EndPoints' = createEndPoints(RouteSegments)
    /\ store' = store \cup {"EndPoints"}
    /\ selEndPoints' = NoSelection
    /\ cursor' = Keys(stationingDict')
    /\ writeLog' = << >>
    /\ pc' = IF cursor' = << >> THEN "propagated" ELSE "cascade"
    /\ UNCHANGED << gen, routes, Handholes, hhFields, Append_Points, Line_Points,
                    Connection_Lines, clFields, RouteSegments, conn_lines_join,
                    handholes_conn_lines_join, selHandholes, selConnection_Lines,
                    runs, prior, preFilter, firstRun, distance_ft, station,
                    segment_messages >>

\* One pass of "for id in stationingDict.keys()".  The update cursor names the
\* field STATIONING, which this script never adds: without it the cursor raises
\* and main() ends there.
selectionpaluza_iteration ==
    /\ pc = "cascade"
    /\ LET id      == Head(cursor)
           ends    == NEW_SELECTION(selEndPoints,
                        {EndPoints[i].OID : i \in {j \in DOMAIN EndPoints :
                                                    EndPoints[j].SEGMENT_ID = id}})
           near    == WithinDistanceOf(Connection_Lines, Visible(ends, EndPoints),
                                       CascadeDistance)
           lines   == ADD_TO_SELECTION(selConnection_Lines, near)
           holes   == ADD_TO_SELECTION(selHandholes,
                        WithinDistanceOf(Handholes, Visible(lines, Connection_Lines),
                                         CascadeDistance))
           updated == UpdateStationing(Handholes, holes, Lookup(stationingDict, id))
       IN  IF "STATIONING" \notin hhFields
           THEN /\ pc' = "aborted"
                /\ selEndPoints' = ends
                /\ selConnection_Lines' = lines
                /\ selHandholes' = holes
                /\ UNCHANGED << Handholes, cursor, writeLog >>
           ELSE /\ Handholes' = updated
                /\ writeLog' = Append(writeLog,
                                 [ source |-> id, matched |-> near,
                                   written |-> OIDs(Visible(holes, Handholes)),
                                   changed |-> Changed(Handholes, updated) ])
                /\ selEndPoints' = NoSelection
                /\ selConnection_Lines' = NoSelection
                /\ selHandholes' = NoSelection
                /\ cursor' = Tail(cursor)
                /\ pc' = IF Tail(cursor) = << >> THEN "propagated" ELSE "cascade"
    /\ UNCHANGED << gen, routes, hhFields, Append_Points, Line_Points,
                    Connection_Lines, clFields, RouteSegments, EndPoints,
                    conn_lines_join, handholes_conn_lines_join, store,
                    stationingDict, runs, prior, preFilter, firstRun,
                    distance_ft, station,
                    segment_messages >>

-----------------------------------------------------------------------------
(* Propagation, Stationizer_v1.py: two spatial joins and an ordered transfer *)

\* match_option CLOSEST with a search radius: the rows of join_fc at the least
\* distance from the target, none when that distance exceeds the radius.  Where
\* several are equally close the tool takes one of them at random.
Closest(target_geom, join_fc, radius) ==
    {i \in DOMAIN join_fc :
        /\ WITHIN_A_DISTANCE(target_geom, Geom(join_fc[i]), radius)
        /\ \A j \in DOMAIN join_fc :
              DistSq(target_geom, Geom(join_fc[i])) <= DistSq(target_geom, Geom(join_fc[j]))}

\* The join rows the tool may take for one target: a closest row, and among the
\* closest rows of equal STATIONING (which give the same output row) the first;
\* 0 when there is no match
Candidates(target_geom, join_fc, radius) ==
    LET c == Closest(target_geom, join_fc, radius)
    IN  IF c = {} THEN {0}
        ELSE {i \in c : \A j \in c :
                 join_fc[j].STATIONING = join_fc[i].STATIONING => i <= j}

RECURSIVE Choices(_)
\* the sequences that take their i-th element from the i-th set
Choices(sets) ==
    IF sets = << >> THEN {<< >>}
    ELSE {Append(m, x) : m \in Choices(SubSeq(sets, 1, Len(sets) - 1)),
                         x \in sets[Len(sets)]}

\* the ways the tool may pair each target row with a join row
Pairings(target_fc, join_fc, radius) ==
    Choices([i \in DOMAIN target_fc |-> Candidates(Geom(target_fc[i]), join_fc, radius)])

\* a field map in which the field of the join features takes the name (mutant of
\* the next)
JoinFieldsFirst(target_value, join_value) ==
    [STATIONING |-> join_value, STATIONING_1 |-> target_value]

\* The default field map of SpatialJoin_analysis: the fields of the target come
\* first under their own names, and a field of the join features whose name is
\* taken gets the suffix _1.  Both inputs have a STATIONING field here.
OutputFields(target_value, join_value) ==
    [STATIONING |-> target_value, STATIONING_1 |-> join_value]

\* SpatialJoin_analysis(JOIN_ONE_TO_ONE, CLOSEST) under one pairing; KEEP_COMMON
\* drops the unmatched targets, KEEP_ALL keeps them with empty join fields
SpatialJoin(target_fc, join_fc, m, keep_all) ==
    LET kept == Ascending({i \in DOMAIN target_fc : keep_all \/ m[i] # 0})
    IN  [k \in DOMAIN kept |->
            LET t == target_fc[kept[k]]
                f == OutputFields(t.STATIONING,
                        IF m[kept[k]] = 0 THEN Null ELSE join_fc[m[kept[k]]].STATIONING)
            IN  [ OID |-> k, TARGET_FID |-> t.OID, geom |-> Geom(t),
                  Join_Count |-> IF m[kept[k]] = 0 THEN 0 ELSE 1,
                  STATIONING |-> f.STATIONING, STATIONING_1 |-> f.STATIONING_1 ]]

\* JoinField_management(in_data, "OBJECTID", join_table, "TARGET_FID", ["STATIONING"]):
\* the joined field is added to in_data; STATIONING being taken, it is added as
\* STATIONING_1 (a later run adds one more copy, with the same content)
JoinField(in_data, join_table) ==
    [i \in DOMAIN in_data |->
        LET hit == {j \in DOMAIN join_table : join_table[j].TARGET_FID = in_data[i].OID}
        IN  [in_data[i] EXCEPT !.STATIONING_1 =
                IF hit = {} THEN Null
                ELSE join_table[CHOOSE j \in hit : \A k \in hit : j <= k].STATIONING]]

stationing_migration_management ==
    /\ pc = "segments"
    /\ gen = 1
    /\ hhFields' = hhFields \cup {"STATIONING"}
    /\ clFields' = clFields \cup {"STATIONING", "STATIONING_1"}
    /\ \E m \in Pairings(Connection_Lines, RouteSegments, SnapDistance) :
          conn_lines_join' = SpatialJoin(Connection_Lines, RouteSegments, m, FALSE)
    /\ Connection_Lines' = JoinField(Connection_Lines, conn_lines_join')
    /\ \E m \in Pairings(Handholes, conn_lines_join', HandholesJoinRadius) :
          handholes_conn_lines_join' = SpatialJoin(Handholes, conn_lines_join', m, TRUE)
    /\ store' = store \cup {"conn_lines_join", "handholes_conn_lines_join"}
    /\ writeLog' = << >>
    /\ pc' = "migrated"
    /\ UNCHANGED << gen, routes, Handholes, Append_Points, Line_Points,
                    RouteSegments, EndPoints, selHandholes, selConnection_Lines,
                    selEndPoints, stationingDict, cursor, runs, prior, preFilter,
                    firstRun, distance_ft, station,
                    segment_messages >>

RECURSIVE TextLess(_, _)
\* the ordering of two texts under ORDER BY ... ASC; an empty value sorts first
TextLess(a, b) ==
    IF a = << >> THEN b # << >>
    ELSE IF b = << >> THEN FALSE
    ELSE IF a[1] # b[1] THEN a[1] < b[1]
    ELSE TextLess(Tail(a), Tail(b))

\* a search cursor without sql_clause: rows in OBJECTID order (mutant of the next)
RowsInTableOrder(rows) == rows

RECURSIVE OrderByStationing(_)
\* sql_clause "ORDER BY STATIONING ASC"; rows of equal STATIONING in OBJECTID order
OrderByStationing(rows) ==
    IF rows = << >> THEN << >>
    ELSE LET done == OrderByStationing(SubSeq(rows, 1, Len(rows) - 1))
             row  == rows[Len(rows)]
             k    == Cardinality({i \in DOMAIN done :
                                    ~TextLess(row.STATIONING, done[i].STATIONING)})
         IN  SubSeq(done, 1, k) \o << row >> \o SubSeq(done, k + 1, Len(done))

\* the search cursor over the small layer is opened
transfer_attributes_begin ==
    /\ pc = "migrated"
    /\ cursor' = OrderByStationing(handholes_conn_lines_join)
    /\ pc' = IF cursor' = << >> THEN "propagated" ELSE "transfer"
    /\ UNCHANGED << pipelineVars_but_cursor, distance_ft, station >>

\* One pass of "for s_row in s_cursor": the large layer is Handholes
transfer_attributes_iteration ==
    /\ pc = "transfer"
    /\ LET s_row   == Head(cursor)
           hit     == {Handholes[i].OID : i \in {j \in DOMAIN Handholes :
                          INTERSECT(Shape(Handholes[j]), s_row.geom)}}
           large   == NEW_SELECTION(selHandholes, hit)
           count_selected == Len(Visible(large, Handholes))
           updated == UpdateStationing(Handholes, large, s_row.STATIONING)
       IN  IF count_selected = 0
           THEN /\ selHandholes' = large
                /\ UNCHANGED Handholes
                /\ writeLog' = Append(writeLog,
                                 [ source |-> s_row.OID, matched |-> hit,
                                   written |-> {}, changed |-> {} ])
           ELSE /\ Handholes' = updated
                /\ selHandholes' = NoSelection
                /\ writeLog' = Append(writeLog,
                                 [ source |-> s_row.OID, matched |-> hit,
                                   written |-> OIDs(Visible(large, Handholes)),
                                   changed |-> Changed(Handholes, updated) ])
    /\ cursor' = Tail(cursor)
    /\ pc' = IF Tail(cursor) = << >> THEN "propagated" ELSE "transfer"
    /\ UNCHANGED << gen, routes, hhFields, Append_Points, Line_Points,
                    Connection_Lines, clFields, RouteSegments, EndPoints,
                    conn_lines_join, handholes_conn_lines_join, store,
                    selConnection_Lines, selEndPoints, stationingDict, runs,
                    prior, preFilter, firstRun, distance_ft, station,
                    segment_messages >>

-----------------------------------------------------------------------------
(* End of the run                                                          *)

\* temp_fcs of clear_temp_feature_classes: v2 adds EndPoints to the list of v1
temp_fcs == IF gen = 2 THEN TempFeatureClasses ELSE TempFeatureClasses \ {"EndPoints"}

clear_temp_feature_classes ==
    /\ pc = "propagated"
    /\ store' = store \ temp_fcs
    /\ Append_Points' = << >>
    /\ Connection_Lines' = << >>
    /\ Line_Points' = << >>
    /\ RouteSegments' = << >>
    /\ EndPoints' = << >>
    /\ pc' = "done"
    /\ UNCHANGED << gen, routes, Handholes, hhFields, clFields, conn_lines_join,
                    handholes_conn_lines_join, selHandholes, selConnection_Lines,
                    selEndPoints, stationingDict, cursor, runs, prior, preFilter,
                    writeLog, firstRun, distance_ft, station,
                    segment_messages >>

\* The operator starts the propagation stage once more on the data as they are:
\* selectionpaluza(), or stationing_migration_management(...) followed by
\* transfer_attributes_from_small_to_large(...)
propagate_again ==
    /\ pc = "propagated"
    /\ runs = 1
    /\ runs' = 2
    /\ firstRun' = << Stationings(Handholes), Stationings(Connection_Lines) >>
    /\ pc' = "segments"
    /\ UNCHANGED << gen, routes, Handholes, hhFields, Append_Points, Line_Points,
                    Connection_Lines, clFields, RouteSegments, EndPoints,
                    conn_lines_join, handholes_conn_lines_join, store,
                    selHandholes, selConnection_Lines, selEndPoints,
                    stationingDict, cursor, prior, preFilter, writeLog,
                    distance_ft, station,
                    segment_messages >>

Next ==
    \/ prepare_point_data_and_run_near
    \/ export_selected_points
    \/ export_xy_event_layer
    \/ append_connection_points
    \/ create_connection_lines
    \/ delete_features_outside_buffer
    \/ generate_segments
    \/ selectionpaluza_begin
    \/ selectionpaluza_iteration
    \/ stationing_migration_management
    \/ transfer_attributes_begin
    \/ transfer_attributes_iteration
    \/ propagate_again
    \/ clear_temp_feature_classes

Spec == Init /\ [][Next]_vars

-----------------------------------------------------------------------------
(* format_station on its own                                               *)

InitFormat ==
    /\ pc = "call"
    /\ distance_ft \in {1000 * whole + fraction :
                          whole \in 0..MaxDistance, fraction \in Fractions}
    /\ station = Null
    /\ gen = 2
    /\ routes = << Box(0, 0, RouteLength, 0) >>
    /\ Handholes = << >>
    /\ hhFields = {}
    /\ prior = << >>
    /\ selHandholes = NoSelection
    /\ selConnection_Lines = NoSelection
    /\ selEndPoints = NoSelection
    /\ Append_Points = << >>
    /\ Line_Points = << >>
    /\ Connection_Lines = << >>
    /\ clFields = {}
    /\ RouteSegments = << >>
    /\ EndPoints = << >>
    /\ conn_lines_join = << >>
    /\ handholes_conn_lines_join = << >>
    /\ store = {}
    /\ stationingDict = << >>
    /\ cursor = << >>
    /\ runs = 0
    /\ preFilter = << >>
    /\ writeLog = << >>
    /\ firstRun = << >>
    /\ segment_messages = << >>

call_format_station ==
    /\ pc = "call"
    /\ station' = format_station(distance_ft)
    /\ pc' = "returned"
    /\ UNCHANGED << pipelineVars, distance_ft >>

NextFormat == call_format_station

SpecFormat == InitFormat /\ [][NextFormat]_vars

-----------------------------------------------------------------------------
(* generate_segments called on its own, on the route feature class and the *)
(* Line_Points feature class as the geodatabase happens to hold them; this *)
(* is how the main of curvy_line_generator.py calls its copy of the loop.   *)

\* number of rows of Line_Points handed to generate_segments on its own
MaxSnapped == 3

\* The route feature classes handed to generate_segments on its own: the one
\* route of the pipeline, or that route followed by a second, shorter polyline
\* that starts at (100, 40)
RouteSets ==
    { << Box(0, 0, RouteLength, 0) >>,
      << Box(0, 0, RouteLength, 0), Box(100, 40, 400, 40) >> }

\* Where a row of Line_Points may lie: on the first route, on the second (one at
\* its start vertex), between the two and past the end of the second
SnappedPositions ==
    { <<92, 0>>, <<125, 0>>, <<225, 40>>, <<100, 40>>, <<200, 20>>, <<450, 40>> }

InitSegments ==
    /\ pc = "segments_call"
    /\ gen \in {1, 2}
    /\ routes \in RouteSets
    /\ \E n \in 0..MaxSnapped : \E pos \in [1..n -> SnappedPositions] :
          Line_Points =
             [i \in 1..n |->
                 [ OID |-> i, x |-> pos[i][1], y |-> pos[i][2], ConnectionNum |-> i,
                   NEAR_X |-> pos[i][1], NEAR_Y |-> pos[i][2] ]]
    /\ Handholes = << >>
    /\ hhFields = {}
    /\ prior = << >>
    /\ selHandholes = NoSelection
    /\ selConnection_Lines = NoSelection
    /\ selEndPoints = NoSelection
    /\ Append_Points = << >>
    /\ Connection_Lines = << >>
    /\ clFields = {}
    /\ RouteSegments = << >>
    /\ EndPoints = << >>
    /\ conn_lines_join = << >>
    /\ handholes_conn_lines_join = << >>
    /\ store = {"Line_Points"}
    /\ stationingDict = << >>
    /\ cursor = << >>
    /\ runs = 0
    /\ preFilter = << >>
    /\ writeLog = << >>
    /\ firstRun = << >>
    /\ segment_messages = << >>
    /\ distance_ft = 0
    /\ station = Null

\* generate_segments(main_line, snapped_pts, "RouteSegments") from call to return
generate_segments_alone ==
    /\ pc = "segments_call"
    /\ LET inserted == InsertedSegments(Line_Points, routes)
       IN  RouteSegments' = IF gen = 2 THEN WithSegmentIds(inserted) ELSE inserted
    /\ store' = store \cup {"RouteSegments"}
    /\ segment_messages' = generate_segments_messages
    /\ pc' = "segments_returned"
    /\ UNCHANGED << gen, routes, Handholes, hhFields, Append_Points, Line_Points,
                    Connection_Lines, clFields, EndPoints, conn_lines_join,
                    handholes_conn_lines_join, selHandholes, selConnection_Lines,
                    selEndPoints, stationingDict, cursor, runs, prior, preFilter,
                    writeLog, firstRun, distance_ft, station >>

NextSegments == generate_segments_alone

SpecSegments == InitSegments /\ [][NextSegments]_vars

-----------------------------------------------------------------------------
(* A run in which the store may refuse an operation                        *)

\* the stages of main during which a store operation can fail
RunningStages ==
    { "start", "near", "selected", "projected", "appended", "lines", "filtered",
      "segments", "cascade", "migrated", "transfer", "propagated" }

\* what the geodatabase and the workspace hold
StoreData ==
    << Handholes, hhFields, Append_Points, Line_Points, Connection_Lines, clFields,
       RouteSegments, EndPoints, conn_lines_join, handholes_conn_lines_join, store >>

\* a handler that swallows the error and goes on to the clean-up, as a
\* try/finally around the stages would (mutant of the next)
CleanUpAfterFailure(at) == "propagated"

\* An arcpy tool or cursor that fails raises an exception; main wraps no stage
\* in try/except, so the exception ends the script where it stands
AfterFailure(at) == "aborted"

\* the next store operation of the run fails: nothing it would have done is done
store_operation_fails ==
    /\ pc \in RunningStages
    /\ pc' = AfterFailure(pc)
    /\ UNCHANGED << pipelineVars, distance_ft, station >>

\* the asset points of the runs with failures lie at three of the Positions
FailurePositions == { <<92, 30>>, <<93, 30>>, <<125, 50>> }

InitFailure ==
    /\ Init
    /\ \A i \in DOMAIN Handholes :
          << Handholes[i].x, Handholes[i].y >> \in FailurePositions

NextFailure == Next \/ store_operation_fails

SpecFailure == InitFailure /\ [][NextFailure]_vars

-----------------------------------------------------------------------------
(* The distance threshold on its own: the first two stages of main, over    *)
(* asset points at chosen distances from the route                         *)

\* Asset points on the route (one on its start vertex), at distance 20, 49, 50
\* (beside the route and off its start), 51 and 60
ThresholdPositions ==
    { <<125, 0>>, <<0, 0>>, <<-20, 0>>, <<125, 49>>, <<125, 50>>, <<-30, 40>>,
      <<125, 51>>, <<-36, 48>> }

InitThreshold == InitAt(ThresholdPositions)

NextThreshold ==
    \/ prepare_point_data_and_run_near
    \/ export_selected_points

SpecThreshold == InitThreshold /\ [][NextThreshold]_vars

-----------------------------------------------------------------------------
(* The order of the transfer's cursor over labels made by format_station     *)

\* number of source features whose labels are ordered
NumSources == 2

\* Lengths in thousandths: the two examples of format_station, and lengths to
\* either side of the step from a two-digit to a three-digit hundreds
\* component and of the step to a four-digit one
SourceLengths ==
    { 91521, 124836, 9949000, 9999499, 9999500, 10000000, 10050000,
      99999000, 100000000 }

InitOrder ==
    /\ pc = "order_unlabelled"
    /\ gen = 1
    /\ routes = << Box(0, 0, RouteLength, 0) >>
    /\ \E len \in [1..NumSources -> SourceLengths] :
          RouteSegments = [i \in 1..NumSources |->
                              [ OID |-> i, length |-> len[i], STATIONING |-> Null ]]
    /\ Handholes = << >>
    /\ hhFields = {}
    /\ prior = << >>
    /\ selHandholes = NoSelection
    /\ selConnection_Lines = NoSelection
    /\ selEndPoints = NoSelection
    /\ Append_Points = << >>
    /\ Line_Points = << >>
    /\ Connection_Lines = << >>
    /\ clFields = {}
    /\ EndPoints = << >>
    /\ conn_lines_join = << >>
    /\ handholes_conn_lines_join = << >>
    /\ store = {"RouteSegments"}
    /\ stationingDict = << >>
    /\ cursor = << >>
    /\ runs = 0
    /\ preFilter = << >>
    /\ writeLog = << >>
    /\ firstRun = << >>
    /\ segment_messages = << >>
    /\ distance_ft = 0
    /\ station = Null

\* station_str = format_station(segment.length) for every source feature
label_source_features ==
    /\ pc = "order_unlabelled"
    /\ RouteSegments' = [i \in DOMAIN RouteSegments |->
                            [RouteSegments[i] EXCEPT
                                !.STATIONING = format_station(RouteSegments[i].length)]]
    /\ pc' = "order_labelled"
    /\ UNCHANGED << gen, routes, Handholes, hhFields, Append_Points, Line_Points,
                    Connection_Lines, clFields, EndPoints, conn_lines_join,
                    handholes_conn_lines_join, store, selHandholes,
                    selConnection_Lines, selEndPoints, stationingDict, cursor,
                    runs, prior, preFilter, writeLog, firstRun, distance_ft,
                    station, segment_messages >>

\* the search cursor with sql_clause "ORDER BY STATIONING ASC" is opened
open_ordered_cursor ==
    /\ pc = "order_labelled"
    /\ cursor' = OrderByStationing(RouteSegments)
    /\ pc' = "ordered"
    /\ UNCHANGED << pipelineVars_but_cursor, distance_ft, station >>

NextOrder ==
    \/ label_source_features
    \/ open_ordered_cursor

SpecOrder == InitOrder /\ [][NextOrder]_vars

-----------------------------------------------------------------------------
(* The stages of Stationizer_v2.py up to generate_segments, over a route    *)
(* feature class of two polylines                                          *)

\* distance between the two polylines of the route feature class
RouteSpacing == 200

\* two parallel polylines, farther apart than the corridors are wide
TwoRoutes ==
    << Box(0, 0, RouteLength, 0), Box(0, RouteSpacing, RouteLength, RouteSpacing) >>

\* Asset points 30 from the first polyline, 30 to either side of the second,
\* and midway between the two
RoutePositions ==
    { <<92, 30>>, <<125, RouteSpacing + 30>>, <<225, RouteSpacing - 30>>,
      <<300, 100>> }

InitRoutes == InitOn(TwoRoutes, RoutePositions) /\ gen = 2

NextRoutes ==
    \/ prepare_point_data_and_run_near
    \/ export_selected_points
    \/ export_xy_event_layer
    \/ append_connection_points
    \/ create_connection_lines
    \/ delete_features_outside_buffer
    \/ generate_segments

SpecRoutes == InitRoutes /\ [][NextRoutes]_vars

-----------------------------------------------------------------------------
(* Properties                                                              *)

\* C1: for a non-negative distance, format_station returns H "+" R with
\* 100 * H + R the whole number nearest to the distance, R written with exactly
\* two digits (00..99) and H with two digits, or more only when it needs them;
\* 0 gives "00+00", 91.521 "00+92", 124.836 "01+25" and 10000 "100+00".
C1_FormatStation ==
    pc = "returned" =>
        LET n  == Len(station)
            hs == SubSeq(station, 1, n - 3)
            rs == SubSeq(station, n - 1, n)
            H  == DecValue(hs)
            R  == DecValue(rs)
            e  == 1000 * (100 * H + R) - distance_ft
        IN  /\ n >= 5
            /\ station[n - 2] = PlusSign[1]
            /\ \A i \in (1..n) \ {n - 2} : IsDigitCode(station[i])
            /\ R \in 0..99
            /\ Len(hs) > 2 => hs[1] # Digit(0)
            /\ e >= -500 /\ e <= 500
            /\ distance_ft = 0 => station = Label(<<0, 0>>, <<0, 0>>)
            /\ distance_ft = 91521 => station = Label(<<0, 0>>, <<9, 2>>)
            /\ distance_ft = 124836 => station = Label(<<0, 1>>, <<2, 5>>)
            /\ distance_ft = 10000000 => station = Label(<<1, 0, 0>>, <<0, 0>>)

\* format_station(10000) has returned "100+00"
C1_Witness ==
    /\ pc = "returned"
    /\ distance_ft = 10000000
    /\ station = Label(<<1, 0, 0>>, <<0, 0>>)

\* an asset point passed the distance threshold and the corridor filter
Passed(h) ==
    /\ h.NEAR_DIST >= 0
    /\ h.NEAR_DIST <= NearThreshold
    /\ h.x > 0 /\ h.x < RouteLength
    /\ h.y > -BufferDistance /\ h.y < BufferDistance

\* the station label of the arc length of an asset point's own projection
OwnStation(h) == format_station(1000 * h.NEAR_X)

\* C2: after a full run of either script every asset point that passed the
\* distance threshold and the corridor filter carries the station label of its
\* own projection.
C2_OwnStationing ==
    pc = "done" => \A i \in DOMAIN Handholes :
        Passed(Handholes[i]) => Handholes[i].STATIONING = OwnStation(Handholes[i])

\* C3: when generate_segments of Stationizer_v2.py has returned, the SEGMENT_IDs
\* of the N segments are exactly 1..N, each used once.
C3_SegmentIdsBijection ==
    (gen = 2 /\ pc = "segments") =>
        /\ {RouteSegments[i].SEGMENT_ID : i \in DOMAIN RouteSegments}
              = 1..Len(RouteSegments)
        /\ \A i, j \in DOMAIN RouteSegments :
              RouteSegments[i].SEGMENT_ID = RouteSegments[j].SEGMENT_ID => i = j

\* generate_segments has numbered three segments, two of them equally long
C3_Witness ==
    /\ gen = 2
    /\ pc = "segments"
    /\ Len(RouteSegments) = 3
    /\ \E i, j \in DOMAIN RouteSegments :
          i # j /\ RouteSegments[i].geom = RouteSegments[j].geom

\* C4: a shorter segment has the smaller SEGMENT_ID, and of two segments of
\* equal length the one inserted first has the smaller SEGMENT_ID.
C4_IdsFollowLength ==
    (gen = 2 /\ pc = "segments") =>
        \A i, j \in DOMAIN RouteSegments :
            LET a == RouteSegments[i]
                b == RouteSegments[j]
            IN  /\ a.geom.x2 - a.geom.x1 < b.geom.x2 - b.geom.x1
                      => a.SEGMENT_ID < b.SEGMENT_ID
                /\ (a.geom.x2 - a.geom.x1 = b.geom.x2 - b.geom.x1 /\ a.OID < b.OID)
                      => a.SEGMENT_ID < b.SEGMENT_ID

\* segments were inserted longest first, two of them equally long
C4_Witness ==
    /\ gen = 2
    /\ pc = "segments"
    /\ Len(RouteSegments) = 3
    /\ RouteSegments[1].geom.x2 > RouteSegments[2].geom.x2
    /\ RouteSegments[2].geom = RouteSegments[3].geom
    /\ RouteSegments[1].SEGMENT_ID = 3

\* C5: the cascade visits the segments in ascending SEGMENT_ID order, so the
\* writes for a smaller SEGMENT_ID all come before those for a larger one.
C5_CascadeAscending ==
    gen = 2 => \A i, j \in DOMAIN writeLog :
        i < j => writeLog[i].source < writeLog[j].source

\* strictly inside the corridor of the route line: the rectangle reaching
\* BufferDistance to either side of it and ending flat at its two ends
StrictlyInsideCorridor(g) ==
    /\ g.x1 > routes[1].x1
    /\ g.x2 < routes[1].x2
    /\ g.y1 > routes[1].y1 - BufferDistance
    /\ g.y2 < routes[1].y2 + BufferDistance

\* C6: when delete_features_outside_buffer has returned, each of the asset
\* point copies, projected points and connection lines holds exactly the
\* features it held before that lie strictly inside the corridor; a feature
\* outside it, across its boundary or touching its boundary is gone.
C6_CorridorFilter ==
    pc = "filtered" =>
        /\ Append_Points =
              SelectSeq(preFilter[1], LAMBDA f : StrictlyInsideCorridor(Geom(f)))
        /\ Line_Points =
              SelectSeq(preFilter[2], LAMBDA f : StrictlyInsideCorridor(Geom(f)))
        /\ Connection_Lines =
              SelectSeq(preFilter[3], LAMBDA f : StrictlyInsideCorridor(Geom(f)))

\* the filter kept a connection line, removed one that ends on the boundary of
\* the corridor and removed a point that lies outside the corridor
C6_Witness ==
    /\ pc = "filtered"
    /\ Connection_Lines # << >>
    /\ \E i \in DOMAIN preFilter[3] :
          /\ preFilter[3][i].geom.y2 = routes[1].y2 + BufferDistance
          /\ \A j \in DOMAIN Connection_Lines :
                Connection_Lines[j].OID # preFilter[3][i].OID
    /\ \E i \in DOMAIN preFilter[1] :
          /\ preFilter[1][i].x < routes[1].x1
          /\ \A j \in DOMAIN Append_Points :
                Append_Points[j].OID # preFilter[1][i].OID

\* C7: in Stationizer_v1.py a connection line with no segment within
\* SnapDistance, and an asset point with no connection line within
\* HandholesJoinRadius, hold after the propagation the STATIONING they held
\* before it.
C7_UnmatchedKeepPrior ==
    (gen = 1 /\ pc = "propagated" /\ runs = 1) =>
        /\ \A i \in DOMAIN Connection_Lines :
              (\A k \in DOMAIN RouteSegments :
                  ~WITHIN_A_DISTANCE(Connection_Lines[i].geom,
                                     RouteSegments[k].geom, SnapDistance))
                 => Connection_Lines[i].STATIONING = Null
        /\ \A i \in DOMAIN Handholes :
              (\A k \in DOMAIN Connection_Lines :
                  ~WITHIN_A_DISTANCE(Shape(Handholes[i]),
                                     Connection_Lines[k].geom, HandholesJoinRadius))
                 => Handholes[i].STATIONING = prior[i]

\* C8: a propagation step whose match set is empty changes no STATIONING.
C8_EmptyMatchNoChange ==
    \A i \in DOMAIN writeLog :
        writeLog[i].matched = {} => writeLog[i].changed = {}

\* C9: after the propagation each connection line carries the STATIONING of
\* the segment that ends at its projected point.
C9_LinesCarryStationing ==
    pc = "propagated" =>
        \A i \in DOMAIN Connection_Lines, j \in DOMAIN Line_Points,
           k \in DOMAIN RouteSegments :
            ( /\ Line_Points[j].ConnectionNum = Connection_Lines[i].ConnectionNum
              /\ RouteSegments[k].geom.x2 = Line_Points[j].x
              /\ RouteSegments[k].geom.y2 = Line_Points[j].y )
            => Connection_Lines[i].STATIONING = RouteSegments[k].STATIONING

\* C10: a second propagation over the same segments, connection lines and
\* asset points leaves every STATIONING as the first one left it.
C10_PropagationIdempotent ==
    (runs = 2 /\ pc = "propagated") =>
        firstRun = << Stationings(Handholes), Stationings(Connection_Lines) >>

\* the propagation has run twice over two or more connection lines and an
\* asset point holds a STATIONING it did not hold before the first run
C10_Witness ==
    /\ runs = 2
    /\ pc = "propagated"
    /\ Len(Connection_Lines) >= 2
    /\ \E i \in DOMAIN Handholes : Handholes[i].STATIONING # prior[i]

\* the STATIONING of the small-layer feature visited in step i of the transfer
VisitedStationing(i) == handholes_conn_lines_join[writeLog[i].source].STATIONING

\* the steps of the transfer whose small-layer feature intersects asset point h
VisitsOf(h) ==
    {i \in DOMAIN writeLog :
        INTERSECT(Shape(h), handholes_conn_lines_join[writeLog[i].source].geom)}

\* C11: the transfer of Stationizer_v1.py visits the small-layer features in
\* ascending STATIONING order, each visit writes the visited STATIONING to
\* every large-layer feature that intersects the visited one, and when the
\* transfer has finished every small-layer feature was visited and a
\* large-layer feature holds the STATIONING of the last visit that reached it.
C11_TransferOrder ==
    (gen = 1 /\ pc \in {"transfer", "propagated"}) =>
        /\ \A i, j \in DOMAIN writeLog :
              i < j => ~TextLess(VisitedStationing(j), VisitedStationing(i))
        /\ \A i \in DOMAIN writeLog :
              writeLog[i].written =
                 {Handholes[k].OID : k \in {n \in DOMAIN Handholes : i \in VisitsOf(Handholes[n])}}
        /\ pc = "propagated" =>
              /\ {writeLog[i].source : i \in DOMAIN writeLog}
                    = DOMAIN handholes_conn_lines_join
              /\ \A k \in DOMAIN Handholes :
                    LET visits == VisitsOf(Handholes[k])
                    IN  visits # {} =>
                          Handholes[k].STATIONING =
                             VisitedStationing(CHOOSE i \in visits : \A j \in visits : j <= i)

\* the transfer has finished and an asset point reached by two visits of
\* different STATIONING holds the one visited later
C11_Witness ==
    /\ gen = 1
    /\ pc = "propagated"
    /\ \E k \in DOMAIN Handholes : \E i, j \in VisitsOf(Handholes[k]) :
          /\ i < j
          /\ VisitedStationing(i) # VisitedStationing(j)
          /\ Handholes[k].STATIONING = VisitedStationing(j)
          /\ prior[k] # VisitedStationing(j)

\* C12: when prepare_point_data_and_run_near has returned, every asset point
\* has a ConnectionNum and no two asset points share one, whether or not the
\* field was there before the call.
C12_ConnectionNumUnique ==
    pc = "near" =>
        /\ \A i \in DOMAIN Handholes : Handholes[i].ConnectionNum # 0
        /\ \A i, j \in DOMAIN Handholes :
              Handholes[i].ConnectionNum = Handholes[j].ConnectionNum => i = j

\* C13: when a run has completed, no intermediate collection of the run is
\* left in the store: not the asset point copy, the projected points, the
\* connection lines, the route segments, the end points, the corridor buffer
\* (deleted inside delete_features_outside_buffer) or a spatial join output.
C13_NoIntermediatesLeft ==
    pc = "done" => store = {}

\* the rows of Line_Points that lie on none of several routes: generate_segments
\* passes over them
SkippedPoints ==
    {i \in DOMAIN Line_Points :
        /\ Len(routes) > 1
        /\ \A r \in DOMAIN routes :
              ~( /\ routes[r].x1 <= Line_Points[i].x /\ Line_Points[i].x <= routes[r].x2
                 /\ routes[r].y1 = Line_Points[i].y )}

\* C14: a projected point on none of the routes gives no segment, the run goes
\* on, and when generate_segments has returned it has reported a tally of the
\* points passed over that equals their number.
C14_SkipsTallied ==
    (pc = "segments_returned" /\ SkippedPoints # {}) =>
        /\ Len(RouteSegments) = Len(Line_Points) - Cardinality(SkippedPoints)
        /\ \E i \in DOMAIN segment_messages :
              /\ segment_messages[i].about = "skipped"
              /\ segment_messages[i].value = Cardinality(SkippedPoints)

\* C15: when a propagation loop is about to write STATIONING values to the
\* asset points, the STATIONING field exists on Handholes: it was there
\* before, or the script has created it; the same for Connection_Lines in
\* Stationizer_v1.py, the only script that writes to it.
C15_FieldBeforeWrite ==
    /\ pc \in {"cascade", "transfer"} => "STATIONING" \in hhFields
    /\ (gen = 1 /\ pc \in {"migrated", "transfer"}) => "STATIONING" \in clFields

\* C16: when a store operation fails the run stops there: the failing step
\* changes nothing in the store, what was written before stays, and no stage
\* runs afterwards, neither a retry nor the deletion of the temporary
\* feature classes.
C16_FailureStops ==
    [][ /\ pc # "aborted"
        /\ store_operation_fails => pc' = "aborted"
        /\ pc' = "aborted" => UNCHANGED StoreData ]_vars

\* a run has stopped in the middle of a propagation loop: an asset point holds
\* a new STATIONING and the temporary feature classes are still in the store
C16_Witness ==
    /\ pc = "aborted"
    /\ writeLog # << >>
    /\ cursor # << >>
    /\ \E i \in DOMAIN Handholes : Handholes[i].STATIONING # prior[i]
    /\ "RouteSegments" \in store

\* squared distance from an asset point to the route polyline, from coordinates
RouteDistSq(h) ==
    LET dx == IF h.x < routes[1].x1 THEN routes[1].x1 - h.x
              ELSE IF h.x > routes[1].x2 THEN h.x - routes[1].x2 ELSE 0
        dy == h.y - routes[1].y1
    IN  dx * dx + dy * dy

\* C17: the asset points carried forward by select_points_within_50ft are
\* exactly those whose distance to the route is at most NearThreshold, the
\* distance NearThreshold itself included; a point on the route is among them.
C17_ThresholdInclusive ==
    pc = "selected" =>
        LET Carried(h) == \E i \in DOMAIN Append_Points :
                              Append_Points[i].ConnectionNum = h.ConnectionNum
                              /\ Append_Points[i].x = h.x /\ Append_Points[i].y = h.y
        IN  /\ \A k \in DOMAIN Handholes :
                  Carried(Handholes[k])
                     <=> RouteDistSq(Handholes[k]) <= NearThreshold * NearThreshold
            /\ \A k \in DOMAIN Handholes :
                  RouteDistSq(Handholes[k]) = 0 => Carried(Handholes[k])
            /\ Len(Append_Points) =
                  Cardinality({k \in DOMAIN Handholes :
                                 RouteDistSq(Handholes[k]) <= NearThreshold * NearThreshold})

\* the selection carried forward a point on the route and one at distance
\* NearThreshold, and left behind one just beyond it
C17_Witness ==
    /\ pc = "selected"
    /\ Len(Append_Points) = 2
    /\ \E i \in DOMAIN Append_Points : Append_Points[i].y = 0 /\ Append_Points[i].x >= 0
    /\ \E i \in DOMAIN Append_Points :
          Append_Points[i].x = -30 /\ Append_Points[i].y = 40
    /\ \E k \in DOMAIN Handholes :
          RouteDistSq(Handholes[k]) = (NearThreshold + 1) * (NearThreshold + 1)

\* the route a row of Line_Points resolves to, from coordinates: the only
\* route, or the first of several that the point lies on; 0 when on none
ResolvedRoute(p) ==
    LET on == {r \in DOMAIN routes :
                  /\ routes[r].x1 <= p.x /\ p.x <= routes[r].x2
                  /\ routes[r].y1 = p.y}
    IN  IF Len(routes) = 1 THEN 1
        ELSE IF on = {} THEN 0
        ELSE CHOOSE r \in on : \A q \in on : r <= q

\* the rows of Line_Points that resolve to a route, in the order of the table
ResolvingPoints ==
    SelectSeq(Line_Points, LAMBDA p : ResolvedRoute(p) # 0)

C20_IterationStartsClean ==
    gen = 2 =>
        /\ pc = "cascade" =>
              /\ selEndPoints = NoSelection
              /\ selConnection_Lines = NoSelection
              /\ selHandholes = NoSelection
        /\ \A i \in DOMAIN writeLog :
              writeLog[i].written \subseteq
                 WithinDistanceOf(Handholes,
                    SelectSeq(Connection_Lines,
                              LAMBDA line : line.OID \in writeLog[i].matched),
                    CascadeDistance)

\* the Correlation IDs left in a working set
ConnectionNums(fc) == {fc[i].ConnectionNum : i \in DOMAIN fc}

\* the Correlation IDs whose asset-point copy, at the asset point's own place,
\* is left in Append_Points
CopiesLeft ==
    {Append_Points[i].ConnectionNum : i \in
        {j \in DOMAIN Append_Points :
            \E h \in DOMAIN Handholes :
                /\ Handholes[h].ConnectionNum = Append_Points[j].ConnectionNum
                /\ Handholes[h].x = Append_Points[j].x
                /\ Handholes[h].y = Append_Points[j].y}}

\* C21: after delete_features_outside_buffer a projected point is left if
\* and only if its connection line is left and if and only if the copy of its
\* asset point is left; and every segment generated afterwards ends at a
\* projected point whose connection line and asset-point copy are both left.
C21_WorkingSetsPaired ==
    /\ pc = "filtered" =>
          /\ ConnectionNums(Line_Points) = ConnectionNums(Connection_Lines)
          /\ ConnectionNums(Line_Points) = CopiesLeft
    /\ (gen = 2 /\ pc = "segments") =>
          \A s \in DOMAIN RouteSegments :
              \E j \in DOMAIN Line_Points :
                  /\ Line_Points[j].x = RouteSegments[s].geom.x2
                  /\ Line_Points[j].y = RouteSegments[s].geom.y2
                  /\ Line_Points[j].ConnectionNum \in ConnectionNums(Connection_Lines)
                  /\ Line_Points[j].ConnectionNum \in CopiesLeft

\* C22: of two lengths whose rounded values differ, the label of the smaller
\* sorts before the label of the larger under ORDER BY STATIONING ASC, whatever
\* the width of the hundreds component; so the cursor of the transfer visits
\* the source features by ascending length and the last one visited is the
\* one farthest along the route.
C22_TextOrderIsDistanceOrder ==
    /\ pc = "order_labelled" =>
          \A a, b \in DOMAIN RouteSegments :
              PyRound(RouteSegments[a].length) < PyRound(RouteSegments[b].length)
                 => TextLess(RouteSegments[a].STATIONING, RouteSegments[b].STATIONING)
    /\ pc = "ordered" =>
          \A i \in DOMAIN cursor :
              PyRound(cursor[i].length) <= PyRound(cursor[Len(cursor)].length)

\* the asset points whose nearest distance to the route exceeds NearThreshold
BeyondThreshold ==
    {i \in DOMAIN Handholes :
        RouteDistSq(Handholes[i]) > NearThreshold * NearThreshold}

\* C23: an asset point whose nearest distance to the route exceeds
\* NearThreshold keeps the STATIONING it had before the run: it has no
\* projected point and no connection line, and no step of the cascade, of the
\* joins or of the transfer writes to it.
C23_FarPointsUntouched ==
    \A i \in BeyondThreshold :
        /\ Handholes[i].STATIONING = prior[i]
        /\ Handholes[i].ConnectionNum # 0 =>
              /\ Handholes[i].ConnectionNum \notin ConnectionNums(Line_Points)
              /\ Handholes[i].ConnectionNum \notin ConnectionNums(Connection_Lines)
        /\ \A k \in DOMAIN writeLog : Handholes[i].OID \notin writeLog[k].written

\* strictly inside the flat-capped corridor of one of the route polylines
InsideSomeCorridor(g) ==
    \E r \in DOMAIN routes :
        /\ g.x1 > routes[r].x1
        /\ g.x2 < routes[r].x2
        /\ g.y1 > routes[r].y1 - BufferDistance
        /\ g.y2 < routes[r].y2 + BufferDistance

\* C24: with more than one route polyline, a feature lying entirely inside
\* the corridor of any one of them is kept by delete_features_outside_buffer;
\* so when points were projected onto the second polyline from inside its
\* corridor, generate_segments still makes a segment along it.
C24_CorridorCoversAllRoutes ==
    Len(routes) > 1 =>
        /\ pc = "filtered" =>
              /\ \A i \in DOMAIN preFilter[1] :
                    InsideSomeCorridor(Geom(preFilter[1][i]))
                       => preFilter[1][i].OID \in OIDs(Append_Points)
              /\ \A i \in DOMAIN preFilter[2] :
                    InsideSomeCorridor(Geom(preFilter[2][i]))
                       => preFilter[2][i].OID \in OIDs(Line_Points)
              /\ \A i \in DOMAIN preFilter[3] :
                    InsideSomeCorridor(Geom(preFilter[3][i]))
                       => preFilter[3][i].OID \in OIDs(Connection_Lines)
        /\ pc = "segments" =>
              ((\E i \in DOMAIN preFilter[2] : preFilter[2][i].y = routes[2].y1)
                  => \E s \in DOMAIN RouteSegments :
                         RouteSegments[s].geom.y1 = routes[2].y1)

=============================================================================
